---- MODULE Spec2Model ----
(***************************************************************************)
(* Model of seed_vc/modules/bigvgan/alias_free_activation/torch/filter.py: *)
(* the Kaiser-windowed sinc design (kaiser_sinc_filter1d) and the          *)
(* LowPassFilter1d module (constructor and forward).                       *)
(*                                                                         *)
(* Real numbers are fixed-point integers with Scale units per 1.0; every   *)
(* product and quotient is rounded to the nearest unit, symmetrically in   *)
(* the sign, as IEEE rounding is.                                          *)
(***************************************************************************)
EXTENDS Integers, Sequences, FiniteSets, TLC

\* ------------------------------------------------------------ bounds
\* kernel_size ranges over 1..MaxKernel in the sequential specification
MaxKernel == 12
\* time length of an input ranges over 1..MaxT in the sequential specification
MaxT == 20
\* kernel_size ranges over 1..MaxKernelConc in the concurrent specification
MaxKernelConc == 3
\* time length of an input ranges over 2..MaxTConc in the concurrent specification
MaxTConc == 3
\* terms of the power series of the modified Bessel function I0
MaxTerms == 40

\* ------------------------------------------------------------ fixed point
Scale == 10 * 100

Abs(a) == IF a < 0 THEN -a ELSE a

\* a / b rounded to the nearest integer, halves away from zero
RDiv(a, b) ==
    LET n == Abs(a)
        d == Abs(b)
        q == n \div d
        r == n % d
        up == IF r >= d - r THEN 1 ELSE 0
    IN  IF (a < 0) = (b < 0) THEN q + up ELSE -(q + up)

\* fixed-point product a * b; the split keeps the intermediate in 32 bits
FMul(a, b) ==
    LET n == Abs(a)
        m == Abs(b)
        hi == n \div Scale
        lo == n % Scale
        p == hi * m + RDiv(lo * m, Scale)
    IN  IF (a < 0) = (b < 0) THEN p ELSE -p

\* fixed-point quotient a / b
FDiv(a, b) ==
    LET n == Abs(a)
        d == Abs(b)
        q == (n \div d) * Scale + RDiv((n % d) * Scale, d)
    IN  IF (a < 0) = (b < 0) THEN q ELSE -q

\* math.pi
Pi == RDiv(355 * Scale, 113)

RECURSIVE SqrtSearch(_, _, _)
SqrtSearch(v, lo, hi) ==
    IF lo >= hi THEN lo
    ELSE LET mid == (lo + hi + 1) \div 2
         IN  IF mid * mid <= v THEN SqrtSearch(v, mid, hi)
             ELSE SqrtSearch(v, lo, mid - 1)

\* fixed-point square root of r, 0 <= r <= 1.0
FSqrt(r) == IF r <= 0 THEN 0 ELSE SqrtSearch(r * Scale, 0, Scale)

\* sin on [0, pi/2] by its Taylor polynomial in Horner form
SinQuarter(z) ==
    LET z2 == FMul(z, z)
        h4 == Scale - RDiv(z2, 72)
        h3 == Scale - RDiv(FMul(z2, h4), 42)
        h2 == Scale - RDiv(FMul(z2, h3), 20)
        h1 == Scale - RDiv(FMul(z2, h2), 6)
    IN  FMul(z, h1)

\* sin of z >= 0
SinPos(z) ==
    LET r == z % (2 * Pi)
    IN  IF r <= Pi \div 2 THEN SinQuarter(r)
        ELSE IF r <= Pi THEN SinQuarter(Pi - r)
        ELSE IF r <= Pi + Pi \div 2 THEN -SinQuarter(r - Pi)
        ELSE -SinQuarter(2 * Pi - r)

\* torch.sin: an odd function
Sin(z) == IF z < 0 THEN -SinPos(-z) ELSE SinPos(z)

\* sinc(x) = sin(pi * x) / pi / x, and 1 where x == 0
Sinc(x) ==
    IF x = 0 THEN Scale
    ELSE FDiv(FDiv(Sin(FMul(Pi, x)), Pi), x)


\* ------------------------------------------------------------ design
\* a tap of a kernel whose normaliser was 0: the quotient is not a number
NaN == -(2 ^ 30)

\* (A - 21) ** 0.4, to one decimal: the largest y/10 with (y/10)^5 <= ((A-21))^2
RECURSIVE RootSearch(_, _, _)
RootSearch(v, lo, hi) ==
    IF lo >= hi THEN lo
    ELSE LET mid == (lo + hi + 1) \div 2
         IN  IF mid ^ 5 <= v THEN RootSearch(v, mid, hi)
             ELSE RootSearch(v, lo, mid - 1)

Pow04(x) == (Scale \div 10) * RootSearch(RDiv(x * x, 10), 0, 60)

\* the attenuation estimate A of the Kaiser design
Attenuation(half_width, kernel_size) ==
    LET half_size == kernel_size \div 2
        delta_f == 4 * half_width
    IN  FMul(FMul(2285 * (half_size - 1), Pi), delta_f) + 7950

\* the three-branch choice of the Kaiser shape parameter
BetaOf(A) ==
    IF A > 50 * Scale THEN RDiv(1102 * (A - 8700), 10000)
    ELSE IF A >= 21 * Scale
         THEN RDiv(5842 * Pow04(A - 21 * Scale), 10000)
              + RDiv(7886 * (A - 21 * Scale), 100000)
    ELSE 0

\* which branch BetaOf takes
BetaBranch(A) ==
    IF A > 50 * Scale THEN "high"
    ELSE IF A >= 21 * Scale THEN "mid"
    ELSE "zero"

\* the modified Bessel function I0 by its power series:
\* term_k = term_(k-1) * (x/2)^2 / k^2
RECURSIVE I0Sum(_, _, _, _)
I0Sum(q, term, k, acc) ==
    IF term = 0 \/ k > MaxTerms THEN acc
    ELSE LET next == RDiv(FMul(term, q), k * k)
         IN  I0Sum(q, next, k + 1, acc + next)

I0(x) == LET h == RDiv(x, 2) IN I0Sum(FMul(h, h), Scale, 1, Scale)

\* torch.kaiser_window(n, beta=beta, periodic=False):
\* w[i] = I0(beta * sqrt(1 - ((2i - (n-1)) / (n-1))^2)) / I0(beta); ones for n = 1
kaiser_window(n, beta) ==
    IF n = 1 THEN <<Scale>>
    ELSE [i \in 1..n |->
            LET m == 2 * (i - 1) - (n - 1)
                r == Scale - RDiv(m * m * Scale, (n - 1) * (n - 1))
            IN  FDiv(I0(FMul(beta, FSqrt(r))), I0(beta))]

\* the even axis without its half-sample shift
TimeAxisNoShift(kernel_size) ==
    [i \in 1..kernel_size |-> (i - 1 - kernel_size \div 2) * Scale]

\* torch.arange(-half_size, half_size) + 0.5 when even,
\* torch.arange(kernel_size) - half_size when odd
TimeAxis(kernel_size) ==
    LET even == kernel_size % 2 = 0
        half_size == kernel_size \div 2
    IN  [i \in 1..kernel_size |->
            IF even THEN (i - 1 - half_size) * Scale + Scale \div 2
            ELSE (i - 1 - half_size) * Scale]

RECURSIVE SeqSum(_)
SeqSum(s) == IF s = <<>> THEN 0 ELSE Head(s) + SeqSum(Tail(s))

\* 2 * cutoff * window * sinc(2 * cutoff * time)
RawFilter(cutoff, window, time) ==
    [i \in 1..Len(time) |->
        FMul(FMul(2 * cutoff, window[i]), Sinc(FMul(2 * cutoff, time[i])))]

\* the normalisation left out
NormalizeSkipped(raw) == raw

\* filter_ /= filter_.sum()
Normalize(raw) ==
    LET s == SeqSum(raw)
    IN  [i \in 1..Len(raw) |-> IF s = 0 THEN NaN ELSE FDiv(raw[i], s)]

\* The function's result: exc is the exception raised ("none" when it
\* returns), value the returned kernel.  The local name `filter` is bound
\* only on the cutoff != 0 path; `return filter` reads it on both.
kaiser_sinc_filter1d(cutoff, half_width, kernel_size) ==
    LET beta == BetaOf(Attenuation(half_width, kernel_size))
        window == kaiser_window(kernel_size, beta)
        time == TimeAxis(kernel_size)
        filterBound == cutoff # 0
    IN  IF filterBound
        THEN [exc |-> "none",
              value |-> Normalize(RawFilter(cutoff, window, time))]
        ELSE [exc |-> "UnboundLocalError", value |-> <<>>]

\* ------------------------------------------------------------ tensors
\* A tensor is its shape and, for three axes, its samples data[b][c][t].
NoTensor == [shape |-> <<>>, data |-> <<>>]

Tensor3(d) == [shape |-> <<Len(d), Len(d[1]), Len(d[1][1])>>, data |-> d]

PaddingModes == {"replicate", "constant", "reflect", "circular"}

\* F.pad(x, (left, right), mode) refuses a reflect pad that is not shorter
\* than the axis and a circular pad that is longer than it
PadRefused(T, left, right, mode) ==
    \/ mode = "reflect" /\ (left >= T \/ right >= T)
    \/ mode = "circular" /\ (left > T \/ right > T)

\* every mode padding with zeros
PadRowZeros(row, left, right, mode) ==
    [j \in 1..(Len(row) + left + right) |->
        IF j - left >= 1 /\ j - left <= Len(row) THEN row[j - left] ELSE 0]

\* one row extended by left and right samples
PadRow(row, left, right, mode) ==
    LET T == Len(row)
    IN  [j \in 1..(T + left + right) |->
            LET src == j - left
            IN  IF src >= 1 /\ src <= T THEN row[src]
                ELSE IF mode = "constant" THEN 0
                ELSE IF mode = "replicate" THEN (IF src < 1 THEN row[1] ELSE row[T])
                ELSE IF mode = "reflect" THEN (IF src < 1 THEN row[2 - src] ELSE row[2 * T - src])
                ELSE row[((src - 1) % T) + 1]]

\* F.pad on the last axis of a [B, C, T] tensor
Pad(x, left, right, mode) ==
    IF PadRefused(x.shape[3], left, right, mode)
    THEN [exc |-> "RuntimeError", out |-> NoTensor]
    ELSE [exc |-> "none",
          out |-> Tensor3([b \in 1..x.shape[1] |->
                     [c \in 1..x.shape[2] |->
                        PadRow(x.data[b][c], left, right, mode)]])]

RECURSIVE Dot(_, _, _, _)
\* sum over j of taps[j] * row[base + j]
Dot(taps, row, base, j) ==
    IF j = 0 THEN 0
    ELSE FMul(taps[j], row[base + j]) + Dot(taps, row, base, j - 1)

\* the cross-correlation of one input row with one tap vector
ConvRow(taps, row, stride) ==
    LET k == Len(taps)
        n == (Len(row) - k) \div stride + 1
    IN  [t \in 1..n |->
            IF \E j \in 1..k : taps[j] = NaN THEN NaN
            ELSE Dot(taps, row, (t - 1) * stride, k)]

RECURSIVE AddRows(_, _)
\* the sample-wise sum of a non-empty sequence of rows of one length
AddRows(rows, n) ==
    IF n = 1 THEN rows[1]
    ELSE LET rest == AddRows(rows, n - 1)
         IN  [t \in 1..Len(rest) |->
                IF rest[t] = NaN \/ rows[n][t] = NaN THEN NaN
                ELSE rest[t] + rows[n][t]]

\* conv1d without the check that the kernel fits the input
conv1dUnchecked(x, weight, stride, groups) ==
    [exc |-> "none",
     out |-> [shape |-> <<x.shape[1], Len(weight),
                          (x.shape[3] - Len(weight[1][1])) \div stride + 1>>,
              data |-> [b \in 1..x.shape[1] |->
                          [co \in 1..Len(weight) |->
                             ConvRow(weight[co][1], x.data[b][co], stride)]]]]

\* F.conv1d(x, weight, stride=stride, groups=groups): weight[co][ci] is the tap
\* vector from the ci-th input channel of co's group; output channel co
\* reads the input channels of its own group only
conv1d(x, weight, stride, groups) ==
    LET B == x.shape[1]
        Cin == x.shape[2]
        T == x.shape[3]
        Cout == Len(weight)
        per == Cin \div groups
        k == Len(weight[1][1])
    IN  IF Cin % groups # 0 \/ Cout % groups # 0 \/ Len(weight[1]) # per \/ T < k
        THEN [exc |-> "RuntimeError", out |-> NoTensor]
        ELSE [exc |-> "none",
              out |-> Tensor3([b \in 1..B |->
                        [co \in 1..Cout |->
                           LET g == (co - 1) \div (Cout \div groups)
                           IN  AddRows([ci \in 1..per |->
                                          ConvRow(weight[co][ci],
                                                  x.data[b][g * per + ci],
                                                  stride)], per)]])]

\* self.filter.expand(C, -1, -1): the one [1, 1, K] kernel seen as [C, 1, K]
Expand(filter, C) == [co \in 1..C |-> <<filter>>]

\* ------------------------------------------------------------ LowPassFilter1d
NoObj == [kernel_size |-> 0]

\* the left pad without the correction for even kernels
PadLeftSymmetric(kernel_size) == kernel_size \div 2

\* self.pad_left = kernel_size // 2 - int(self.even)
PadLeft(kernel_size) ==
    kernel_size \div 2 - (IF kernel_size % 2 = 0 THEN 1 ELSE 0)

\* the right pad rounded up
PadRightCeil(kernel_size) == (kernel_size + 1) \div 2

\* self.pad_right = kernel_size // 2
PadRight(kernel_size) == kernel_size \div 2

\* the cutoff check at the head of __init__
CutoffRejected(cutoff) == cutoff < 0 \/ cutoff > Scale \div 2

\* __init__: exc is the exception that ends it ("none" when it returns),
\* designed whether kaiser_sinc_filter1d was called, self the module built
\* f is what the call of kaiser_sinc_filter1d gave
InitWithFilter(a, f) ==
    IF f.exc # "none"
    THEN [exc |-> f.exc, designed |-> TRUE, self |-> NoObj]
    ELSE [exc |-> "none", designed |-> TRUE,
          self |-> [kernel_size |-> a.kernel_size,
                    even |-> a.kernel_size % 2 = 0,
                    pad_left |-> PadLeft(a.kernel_size),
                    pad_right |-> PadRight(a.kernel_size),
                    stride |-> a.stride,
                    padding |-> a.padding,
                    padding_mode |-> a.padding_mode,
                    filter |-> f.value]]

LowPassFilter1d_init(a) ==
    IF CutoffRejected(a.cutoff)
    THEN [exc |-> "ValueError", designed |-> FALSE, self |-> NoObj]
    ELSE InitWithFilter(a, kaiser_sinc_filter1d(a.cutoff, a.half_width,
                                                 a.kernel_size))

\* `_, C, _ = x.shape` fails unless x has exactly three axes
UnpackRefused(x) == Len(x.shape) # 3

\* the padding statement of forward: x is replaced by its padded copy
ForwardPad(self, x) ==
    IF self.padding
    THEN Pad(x, self.pad_left, self.pad_right, self.padding_mode)
    ELSE [exc |-> "none", out |-> x]

\* a dense convolution: every output channel sums over every input channel
ForwardConvDense(self, x, C) ==
    conv1d(x, [co \in 1..C |-> [ci \in 1..C |-> self.filter]], self.stride, 1)

\* the convolution statement of forward
ForwardConv(self, x, C) ==
    conv1d(x, Expand(self.filter, C), self.stride, C)

\* forward switching the padding off once it ran
ForwardSelfClearsPadding(self) == [self EXCEPT !.padding = FALSE]

\* what forward leaves in the module: it assigns only its locals
ForwardSelf(self) == self

\* forward run from its first statement to its return or its exception
\* p is what the padding statement gave
ForwardAfterPad(self, p, C) ==
    IF p.exc # "none" THEN p ELSE ForwardConv(self, p.out, C)

Forward(self, x) ==
    IF UnpackRefused(x) THEN [exc |-> "ValueError", out |-> NoTensor]
    ELSE ForwardAfterPad(self, ForwardPad(self, x), x.shape[2])

\* ------------------------------------------------------------ inputs
ConstRow(T, v) == [i \in 1..T |-> v]

RampRow(T) == [i \in 1..T |-> (i - 1) * (Scale \div 4) - Scale \div 2]

\* a constant signal of value 0.75 and a rising one
Rows(T) == {ConstRow(T, 3 * (Scale \div 4)), RampRow(T)}

Shapes == {<<1, 2>>, <<2, 1>>}

\* the [B, C, T] inputs with T in Ts
Tensors3(Ts) ==
    UNION {{Tensor3(d) : d \in [1..bc[1] -> [1..bc[2] -> Rows(T)]]} :
             <<bc, T>> \in Shapes \X Ts}

\* inputs with two and with four axes
BadRank == {[shape |-> <<2, 3>>, data |-> <<>>],
            [shape |-> <<1, 1, 2, 3>>, data |-> <<>>]}

Cutoffs == {-(Scale \div 10), 0, Scale \div 4, Scale \div 2, 6 * (Scale \div 10)}

HalfWidths == {-Scale, Scale \div 10, 6 * (Scale \div 10)}

Strides == {1, 2}

\* constructor arguments; without padding the mode is never read and is
\* left at its default
CtorArgs(cutoffs, widths, sizes, modes) ==
    {a \in [cutoff : cutoffs, half_width : widths, stride : Strides,
            padding : BOOLEAN, padding_mode : modes, kernel_size : sizes] :
        a.padding \/ a.padding_mode = "replicate"}

Threads == {1, 2}

\* ------------------------------------------------------------ state
VARIABLES
    obj,    \* the LowPassFilter1d module, NoObj before construction
    built,  \* the module as __init__ left it
    ctor,   \* the last constructor call: its arguments and how it ended
    call    \* per thread, its forward call: position, input, locals, result

vars == <<obj, built, ctor, call>>

Idle == [pc |-> "idle", x |-> NoTensor, C |-> 0, xp |-> NoTensor,
         exc |-> "none", out |-> NoTensor]

Init ==
    /\ obj = NoObj
    /\ built = NoObj
    /\ ctor = [args |-> <<>>, exc |-> "unborn", designed |-> FALSE]
    /\ call = [t \in Threads |-> Idle]

\* a call of forward on x that ended as r says
Finished(x, r) ==
    [pc |-> "done", x |-> x, C |-> 0, xp |-> NoTensor,
     exc |-> r.exc, out |-> r.out]

\* r is what __init__ gave for the arguments a
Constructed(a, r) ==
    /\ obj' = r.self
    /\ built' = r.self
    /\ ctor' = [args |-> a, exc |-> r.exc, designed |-> r.designed]

\* LowPassFilter1d(cutoff, half_width, stride, padding, padding_mode,
\* kernel_size), once, with arguments from argset
ConstructWith(argset) ==
    /\ ctor.exc = "unborn"
    /\ \E a \in argset : Constructed(a, LowPassFilter1d_init(a))
    /\ UNCHANGED call

Construct ==
    ConstructWith(CtorArgs(Cutoffs, HalfWidths, 1..MaxKernel, PaddingModes))

\* module(x) on one thread, from call to return or exception
Call(t) ==
    /\ obj # NoObj
    /\ call[t].pc = "idle"
    /\ \E x \in Tensors3(1..MaxT) \cup BadRank :
         call' = [call EXCEPT ![t] = Finished(x, Forward(obj, x))]
    /\ obj' = ForwardSelf(obj)
    /\ UNCHANGED <<built, ctor>>

\* the caller drops the result of a finished call
Return(t) ==
    /\ call[t].pc = "done"
    /\ call' = [call EXCEPT ![t] = Idle]
    /\ UNCHANGED <<obj, built, ctor>>

Next == Construct \/ Call(1) \/ Return(1)

Spec == Init /\ [][Next]_vars

\* ------------------------------------------------------------ two threads
\* forward statement by statement, so that two calls on one module interleave
ConstructConc ==
    ConstructWith(CtorArgs({Scale \div 4, Scale \div 2}, {6 * (Scale \div 10)},
                           1..MaxKernelConc, {"replicate", "constant"}))

ConcInputs ==
    UNION {{Tensor3(d) : d \in [1..bc[1] -> [1..bc[2] -> Rows(T)]]} :
             <<bc, T>> \in Shapes \X (2..MaxTConc)}
    \cup {[shape |-> <<2, 3>>, data |-> <<>>]}

\* the call is made: x is bound
Begin(t) ==
    /\ obj # NoObj
    /\ call[t].pc = "idle"
    /\ \E x \in ConcInputs :
         call' = [call EXCEPT ![t] = [Idle EXCEPT !.pc = "unpack", !.x = x]]
    /\ UNCHANGED <<obj, built, ctor>>

\* the state of a call after its first statement
Unpacked(c) ==
    IF UnpackRefused(c.x)
    THEN Finished(c.x, [exc |-> "ValueError", out |-> NoTensor])
    ELSE [c EXCEPT !.pc = "pad", !.C = c.x.shape[2]]

\* _, C, _ = x.shape
Unpack(t) ==
    /\ call[t].pc = "unpack"
    /\ call' = [call EXCEPT ![t] = Unpacked(call[t])]
    /\ obj' = ForwardSelf(obj)
    /\ UNCHANGED <<built, ctor>>

\* the state of a call whose padding statement gave p
Padded(c, p) ==
    IF p.exc # "none" THEN Finished(c.x, p)
    ELSE [c EXCEPT !.pc = "conv", !.xp = p.out]

\* if self.padding: x = F.pad(x, (self.pad_left, self.pad_right), mode=...)
PadStep(t) ==
    /\ call[t].pc = "pad"
    /\ call' = [call EXCEPT ![t] = Padded(call[t], ForwardPad(obj, call[t].x))]
    /\ obj' = ForwardSelf(obj)
    /\ UNCHANGED <<built, ctor>>

\* out = F.conv1d(...); return out
ConvStep(t) ==
    /\ call[t].pc = "conv"
    /\ call' = [call EXCEPT ![t] =
                  Finished(call[t].x,
                           ForwardConv(obj, call[t].xp, call[t].C))]
    /\ obj' = ForwardSelf(obj)
    /\ UNCHANGED <<built, ctor>>

NextConc ==
    \/ ConstructConc
    \/ \E t \in Threads :
         Begin(t) \/ Unpack(t) \/ PadStep(t) \/ ConvStep(t) \/ Return(t)

SpecConc == Init /\ [][NextConc]_vars

\* ------------------------------------------------------------ properties
Half == Scale \div 2

Constructed1 == ctor.exc = "none"

Done(t) == call[t].pc = "done"

Returned(t) == call[t].pc = "done" /\ call[t].exc = "none"

IsConstRow(row) == \A i \in 1..Len(row) : row[i] = row[1]

\* C1: for cutoff in (0, 0.5], half_width > 0 and kernel_size >= 1 the
\* designed kernel has kernel_size taps, its normaliser is not zero (no tap
\* is NaN) and the taps sum to 1.0 within kernel_size rounding units.
KernelSumsToOne ==
    (/\ ctor.exc # "unborn"
     /\ ctor.args.cutoff > 0 /\ ctor.args.cutoff <= Half
     /\ ctor.args.half_width > 0 /\ ctor.args.kernel_size >= 1)
    => /\ ctor.exc = "none"
       /\ Len(obj.filter) = ctor.args.kernel_size
       /\ \A i \in 1..Len(obj.filter) : obj.filter[i] # NaN
       /\ Abs(SeqSum(obj.filter) - Scale) <= ctor.args.kernel_size

\* the default module, whose kernel has taps of both signs
KernelSumsToOneWitness ==
    /\ Constructed1
    /\ ctor.args.cutoff = Half /\ ctor.args.half_width > 0
    /\ ctor.args.kernel_size = 12
    /\ \E i \in 1..12 : obj.filter[i] < 0
    /\ \E i \in 1..12 : obj.filter[i] > Half

\* C2 as claimed: a cutoff below 0 or above 0.5 ends the constructor with
\* ValueError before the design runs and leaves no module; every cutoff in
\* [0, 0.5] gives a module holding a kernel of kernel_size taps.
CutoffContract ==
    ctor.exc # "unborn"
    => IF ctor.args.cutoff < 0 \/ ctor.args.cutoff > Half
       THEN ctor.exc = "ValueError" /\ ~ctor.designed /\ obj = NoObj
       ELSE /\ ctor.exc = "none" /\ obj # NoObj
            /\ Len(obj.filter) = ctor.args.kernel_size

\* C3 as claimed: with cutoff == 0 the design returns kernel_size taps that
\* are all 0 and the constructor stores them.
ZeroCutoffGivesZeroKernel ==
    (ctor.exc # "unborn" /\ ctor.args.cutoff = 0)
    => /\ ctor.exc = "none" /\ obj # NoObj
       /\ Len(obj.filter) = ctor.args.kernel_size
       /\ \A i \in 1..Len(obj.filter) : obj.filter[i] = 0

\* the time length the specification gives for an input of length T
SpecLength(T, kernel_size, stride, padding) ==
    LET even == IF kernel_size % 2 = 0 THEN 1 ELSE 0
        padded == T + (kernel_size \div 2 - even) + kernel_size \div 2
    IN  IF padding THEN (padded - kernel_size) \div stride + 1
        ELSE (T - kernel_size) \div stride + 1

HasShape(x, B, C, T) ==
    /\ x.shape = <<B, C, T>>
    /\ Len(x.data) = B
    /\ \A b \in 1..B :
         /\ Len(x.data[b]) = C
         /\ \A c \in 1..C : Len(x.data[b][c]) = T

\* C4: the pads are kernel_size // 2 - (1 if even) and kernel_size // 2, not
\* negative, and sum to kernel_size - 1; a forward that returns gives
\* [B, C, T'] with T' = floor((T + pads - kernel_size) / stride) + 1 when
\* padding and floor((T - kernel_size) / stride) + 1 when not, which is T
\* for stride 1 with padding; with replicate or zero padding every
\* three-axis input is accepted.
PadsAndLength ==
    /\ obj # NoObj
       => LET k == obj.kernel_size
          IN  /\ obj.pad_left = k \div 2 - (IF k % 2 = 0 THEN 1 ELSE 0)
              /\ obj.pad_right = k \div 2
              /\ obj.pad_left >= 0 /\ obj.pad_right >= 0
              /\ obj.pad_left + obj.pad_right = k - 1
    /\ Returned(1)
       => LET x == call[1].x
              n == SpecLength(x.shape[3], obj.kernel_size, obj.stride,
                              obj.padding)
          IN  /\ HasShape(call[1].out, x.shape[1], x.shape[2], n)
              /\ n >= 1
              /\ (obj.padding /\ obj.stride = 1) => n = x.shape[3]
    /\ (/\ Done(1) /\ Len(call[1].x.shape) = 3 /\ obj.padding
        /\ obj.padding_mode \in {"replicate", "constant"})
       => call[1].exc = "none"

\* kernel_size 12 has pads 5 and 6 and keeps the length of a [1, 2, 20] input
PadsAndLengthWitness ==
    /\ Returned(1)
    /\ obj.kernel_size = 12 /\ obj.pad_left = 5 /\ obj.pad_right = 6
    /\ obj.padding /\ obj.stride = 1
    /\ call[1].x.shape = <<1, 2, 20>>
    /\ call[1].out.shape = <<1, 2, 20>>

\* every output sample of the constant rows of a returned call is the
\* row's value, within kernel_size rounding units
ConstantRowsPass ==
    LET x == call[1].x
        y == call[1].out
    IN  \A b \in 1..x.shape[1] : \A c \in 1..x.shape[2] :
          IsConstRow(x.data[b][c])
          => \A i \in 1..Len(y.data[b][c]) :
               Abs(y.data[b][c][i] - x.data[b][c][1]) <= obj.kernel_size

\* C5 as claimed: with padding and cutoff > 0 a constant signal comes out
\* unchanged, boundary samples included, in every padding mode.
ConstantPassesEveryMode ==
    (Returned(1) /\ obj.padding /\ ctor.args.cutoff > 0) => ConstantRowsPass

\* C5 amended: the same for every padding mode but zero padding.
ConstantPassesExtendingModes ==
    (/\ Returned(1) /\ obj.padding /\ ctor.args.cutoff > 0
     /\ obj.padding_mode # "constant")
    => ConstantRowsPass

\* a constant row through a reflect-padded 12-tap filter with stride 2
ConstantPassesWitness ==
    /\ Returned(1) /\ obj.padding /\ ctor.args.cutoff > 0
    /\ obj.padding_mode = "reflect" /\ obj.kernel_size = 12 /\ obj.stride = 2
    /\ IsConstRow(call[1].x.data[1][1])
    /\ Len(call[1].out.data[1][1]) > 2

SameResult(c, r) == c.exc = r.exc /\ c.out = r.out

\* C6: forward leaves the module as the constructor built it, whatever the
\* interleaving of the calls on it, and what a finished call gave is what
\* forward gives for its input on the module as built.
ForwardLeavesModule ==
    /\ obj = built
    /\ \A t \in Threads :
         Done(t) => SameResult(call[t], Forward(built, call[t].x))

\* one call has returned while the other is between its padding and its
\* convolution, on different inputs
ForwardLeavesModuleWitness ==
    /\ Returned(1)
    /\ call[2].pc = "conv"
    /\ call[2].x # call[1].x
    /\ obj.padding /\ obj.kernel_size > 1

\* C7: a forward on an input without exactly three axes, or without padding
\* on an input shorter than the kernel, ends with an exception, gives no
\* output and leaves the module as built.
BadInputFails ==
    (/\ Done(1)
     /\ \/ Len(call[1].x.shape) # 3
        \/ ~obj.padding /\ call[1].x.shape[3] < obj.kernel_size)
    => /\ call[1].exc \in {"ValueError", "RuntimeError"}
       /\ call[1].out = NoTensor
       /\ obj = built

\* an unpadded call on an input one sample shorter than the kernel
BadInputFailsWitness ==
    /\ Done(1) /\ ~obj.padding
    /\ Len(call[1].x.shape) = 3
    /\ call[1].x.shape[3] = obj.kernel_size - 1
    /\ call[1].exc = "RuntimeError"

\* C8: in two returned calls on one module, rows of the inputs that are
\* equal give equal rows of the outputs, whatever the other channels and
\* batch entries hold and whichever channel the rows are in.
Depthwise ==
    \A t1 \in Threads, t2 \in Threads :
      (Returned(t1) /\ Returned(t2))
      => LET x1 == call[t1].x
             x2 == call[t2].x
         IN  \A b1 \in 1..x1.shape[1], c1 \in 1..x1.shape[2],
                b2 \in 1..x2.shape[1], c2 \in 1..x2.shape[2] :
               x1.data[b1][c1] = x2.data[b2][c2]
               => call[t1].out.data[b1][c1] = call[t2].out.data[b2][c2]

\* two returned calls whose two-channel inputs agree on the first channel
\* and differ on the second
DepthwiseWitness ==
    /\ Returned(1) /\ Returned(2)
    /\ call[1].x.shape[2] = 2 /\ call[2].x.shape[2] = 2
    /\ call[1].x.data[1][1] = call[2].x.data[1][1]
    /\ call[1].x.data[1][2] # call[2].x.data[1][2]
    /\ obj.kernel_size > 1

\* kernel_size 1: the kernel is the one tap 1.0, the pads are 0 and a
\* stride-1 forward of a three-axis input returns the input
UnitKernelPassesThrough ==
    /\ obj.filter = <<Scale>>
    /\ obj.pad_left = 0 /\ obj.pad_right = 0
    /\ (Done(1) /\ obj.stride = 1 /\ Len(call[1].x.shape) = 3)
       => call[1].exc = "none" /\ call[1].out = call[1].x

\* C9 as claimed: for kernel_size 1, cutoff in (0, 0.5] and any half_width
\* the design takes the beta = 0 branch, and the kernel is 1.0 with a
\* pass-through forward.
UnitKernelAnyHalfWidth ==
    (/\ ctor.exc # "unborn" /\ ctor.args.kernel_size = 1
     /\ ctor.args.cutoff > 0 /\ ctor.args.cutoff <= Half)
    => /\ BetaBranch(Attenuation(ctor.args.half_width, 1)) = "zero"
       /\ ctor.exc = "none"
       /\ UnitKernelPassesThrough

\* C9 amended: the beta = 0 branch is taken for half_width > 0; the kernel
\* is 1.0 with a pass-through forward for any half_width.
UnitKernelPositiveHalfWidth ==
    (/\ ctor.exc # "unborn" /\ ctor.args.kernel_size = 1
     /\ ctor.args.cutoff > 0 /\ ctor.args.cutoff <= Half)
    => /\ ctor.args.half_width > 0
          => BetaBranch(Attenuation(ctor.args.half_width, 1)) = "zero"
       /\ ctor.exc = "none"
       /\ UnitKernelPassesThrough

\* an unpadded stride-1 call on a one-tap module returned its rising input
UnitKernelWitness ==
    /\ Returned(1) /\ obj.kernel_size = 1 /\ obj.stride = 1 /\ ~obj.padding
    /\ ctor.args.half_width > 0
    /\ ~IsConstRow(call[1].x.data[1][1])
    /\ call[1].out = call[1].x

\* C10: the kernel is symmetric about its centre for both parities, since
\* the time axis is antisymmetric: time[i] = i - kernel_size // 2 (+ 0.5 when
\* even), counting i from 0.
KernelSymmetric ==
    obj # NoObj
    => LET k == obj.kernel_size
           time == TimeAxis(k)
       IN  \A i \in 1..k :
             /\ obj.filter[i] = obj.filter[k + 1 - i]
             /\ time[k + 1 - i] = -time[i]
             /\ time[i] = (i - 1 - k \div 2) * Scale
                          + (IF k % 2 = 0 THEN Half ELSE 0)

\* an odd kernel whose taps are not all equal
KernelSymmetricWitness ==
    /\ Constructed1 /\ obj.kernel_size = 11
    /\ obj.filter[5] # obj.filter[6]
    /\ obj.filter[5] # 0
====
